---- MODULE Spec2Model ----
(***************************************************************************)
(* lectio/resource: resolution of one URL into a Page.                     *)
(*                                                                         *)
(* The repository holds three generations of the entry point:              *)
(*   "NewPageFromURL"  page.go     Policy argument, issue lists            *)
(*   "factory"         factory.go  factory.PageFromURL, valid flag         *)
(*   "DefaultFactory"  issue.go    DefaultFactory.PageFromURL, valid flag  *)
(* and one HTML metadata extractor, Page.parsePageMetaData (page.go).      *)
(*                                                                         *)
(* Text is modelled as a sequence of one-character strings so that         *)
(* trimming, case folding and the meta-refresh regular expression are      *)
(* computed character by character.                                        *)
(***************************************************************************)
EXTENDS Integers, Sequences, FiniteSets, TLC

VARIABLES
    variant,      \* which entry point the call in progress went through
    factory,      \* the factory's fields, set once by initOptions
    policy,       \* NewPageFromURL's policy argument: "nil" or "set"
    options,      \* per-call options of PageFromURL: is a download capability
                  \* (contentDownloader, FileAttachmentCreator) among them
    pc,           \* position of the resolution
    origURLtext,  \* the URL text argument
    clientCalls,  \* HTTP clients obtained
    reqBuilt,     \* http.NewRequest calls
    hooks,        \* request-preparation hooks run, in order
    netCalls,     \* httpClient.Do calls
    resp,         \* the HTTP response (NoResp before one arrived)
    page,         \* the Page under construction / returned (NoPage if none)
    retErr,       \* the error or issue returned next to the Page (NoErr if nil)
    detectAns,    \* answer of DetectRedirectsInHTMLContent: "none" until asked
    parseAns,     \* answer of ParseMetaDataInHTMLContent: "none" until asked
    stopAns,      \* answer of StopOnDownloadError: "none" until asked
    downloadCalls,\* invocations of the downloader
    downloadRet,  \* what the downloader returned: (ok, attachment, err), NoOutcome before
    stack,        \* nodes still to visit by the traversal f, next first
    inHead,       \* parsePageMetaData's inHead flag
    parseState,   \* html.Parse on this response: "none" (not called), "ok", "error"
    metaTagRet,   \* result of the last MetaTag call on the returned Page
    fpc,          \* position of the DownloadFile call ("Idle": none in progress)
    fileArgs,     \* DownloadFile's arguments: url, resp, policy
    fileResult,   \* DownloadFile's result, the FileAttachment (NoAttachment before new)
    fileRet,      \* what DownloadFile returned: (ok, attachment, issues)
    fs,           \* the paths at which storage holds a file
    bodyClosed,   \* resp.Body of DownloadFile's response was closed
    destFile,     \* the destination file handle: "none", "open", "closed"
    createCalls,  \* calls of policy.CreateFile
    fileLog,      \* file and body operations of DownloadFile and Delete, in order
    cur,          \* the resolution whose goroutine runs now (0: a single resolution)
    saved         \* the locals of the resolutions that are not running now

resolveVars ==
    <<variant, factory, policy, options, pc, origURLtext, clientCalls, reqBuilt, hooks,
      netCalls, resp, page, retErr, detectAns, parseAns, stopAns, downloadCalls,
      downloadRet, stack, inHead, parseState, metaTagRet>>

fileVars ==
    <<fpc, fileArgs, fileResult, fileRet, fs, bodyClosed, destFile, createCalls, fileLog>>

concVars == <<cur, saved>>

vars == <<resolveVars, fileVars, concVars>>

-----------------------------------------------------------------------------
(* Text helpers: strings.ToLower / EqualFold / TrimSpace on ASCII.          *)

UpperChars == <<"A","B","C","D","E","F","G","H","I","J","K","L","M",
                "N","O","P","Q","R","S","T","U","V","W","X","Y","Z">>
LowerChars == <<"a","b","c","d","e","f","g","h","i","j","k","l","m",
                "n","o","p","q","r","s","t","u","v","w","x","y","z">>

LowerChar(c) ==
    IF \E i \in DOMAIN UpperChars : UpperChars[i] = c
    THEN LowerChars[CHOOSE i \in DOMAIN UpperChars : UpperChars[i] = c]
    ELSE c

ToLower(s) == [i \in DOMAIN s |-> LowerChar(s[i])]

\* strings.EqualFold on ASCII text
EqualFold(a, b) == ToLower(a) = ToLower(b)

IsSpace(c) == c \in {" ", "\t", "\n", "\r"}
IsDigit(c) == c \in {"0","1","2","3","4","5","6","7","8","9"}

\* strings.TrimSpace: drop leading and trailing white space
TrimSpace(s) ==
    LET keep == {i \in DOMAIN s : ~IsSpace(s[i])}
    IN  IF keep = {} THEN <<>>
        ELSE LET lo == CHOOSE i \in keep : \A j \in keep : i <= j
                 hi == CHOOSE i \in keep : \A j \in keep : j <= i
             IN  SubSeq(s, lo, hi)

HasPrefixAt(s, i, p) ==
    /\ i + Len(p) - 1 <= Len(s)
    /\ \A k \in 1..Len(p) : s[i + k - 1] = p[k]

sHead      == <<"h","e","a","d">>
sMeta      == <<"m","e","t","a">>
sHttpEquiv == <<"h","t","t","p","-","e","q","u","i","v">>
sRefresh   == <<"r","e","f","r","e","s","h">>
sContent   == <<"c","o","n","t","e","n","t">>
sProperty  == <<"p","r","o","p","e","r","t","y">>
sName      == <<"n","a","m","e">>
sUrlEq     == <<"u","r","l","=">>

-----------------------------------------------------------------------------
\* metaRefreshContentRegEx (page.go:16): start of text, one optional digit
\* (group 1), one optional white-space character, ';', one optional
\* white-space character, the literal 'url=', then the rest of the text up to
\* its end (group 2).
\* The character classes for digits and white space and the literals ';' and
\* 'u' are pairwise disjoint, so the greedy optional items never need
\* backtracking: each consumes one character exactly when the next character
\* is in its class.  '.' does not match a newline and '$' is the end of text.

NoMatch == <<>>

metaRefreshContentRegEx_star(s) ==
    \* the same expression with \d* and \s* in place of \d? and \s?
    LET RECURSIVE Skip(_, _)
        Skip(i, digits) ==
            IF i <= Len(s) /\ (IF digits THEN IsDigit(s[i]) ELSE IsSpace(s[i]))
            THEN Skip(i + 1, digits) ELSE i
        i1 == Skip(1, TRUE)
        i2 == Skip(i1, FALSE)
        i3 == IF i2 <= Len(s) /\ s[i2] = ";" THEN i2 + 1 ELSE 0
        i4 == IF i3 = 0 THEN 0 ELSE Skip(i3, FALSE)
        i5 == IF i4 # 0 /\ HasPrefixAt(s, i4, sUrlEq) THEN i4 + Len(sUrlEq) ELSE 0
    IN  IF i5 = 0 \/ \E k \in i5..Len(s) : s[k] = "\n"
        THEN NoMatch
        ELSE <<s, SubSeq(s, 1, i1 - 1), SubSeq(s, i5, Len(s))>>

metaRefreshContentRegEx(s) ==
    LET i1 == IF 1 <= Len(s) /\ IsDigit(s[1]) THEN 2 ELSE 1
        i2 == IF i1 <= Len(s) /\ IsSpace(s[i1]) THEN i1 + 1 ELSE i1
        i3 == IF i2 <= Len(s) /\ s[i2] = ";" THEN i2 + 1 ELSE 0
        i4 == IF i3 = 0 THEN 0
              ELSE IF i3 <= Len(s) /\ IsSpace(s[i3]) THEN i3 + 1 ELSE i3
        i5 == IF i4 # 0 /\ HasPrefixAt(s, i4, sUrlEq) THEN i4 + Len(sUrlEq) ELSE 0
    IN  IF i5 = 0 \/ \E k \in i5..Len(s) : s[k] = "\n"
        THEN NoMatch
        ELSE <<s, SubSeq(s, 1, i1 - 1), SubSeq(s, i5, Len(s))>>

-----------------------------------------------------------------------------
(* The Page (page.go:25-34) and its accessors.                              *)

NoPage == [nil |-> "Page"]
NoType == [nil |-> "Type"]
NoAttachment == [nil |-> "Attachment"]
NoErr == [nil |-> "error"]
NoResp == [nil |-> "Response"]
NoMap == <<>>

\* new(Page) with MetaPropertyTags = make(map) and TargetURL = url
NewPage(url) ==
    [TargetURL |-> url, PageType |-> NoType, HTMLParsed |-> FALSE,
     IsHTMLRedirect |-> FALSE, MetaRefreshTagContentURLText |-> <<>>,
     MetaPropertyTags |-> NoMap, AllIssues |-> <<>>,
     DownloadedAttachment |-> NoAttachment, valid |-> FALSE]

MapPut(m, k, v) == [x \in (DOMAIN m) \cup {k} |-> IF x = k THEN v ELSE m[x]]

newIssue(context, code, message, isError) ==
    [context |-> context, code |-> code, message |-> message, isError |-> isError]

\* Page.IsHTML: p.Type().MediaType() == "text/html"; the call is undefined
\* (nil interface) while PageType is nil, see IsHTMLPanics.
IsHTMLPanics(p) == p.PageType = NoType

\* an IsHTML that compares the raw header value instead of the media type
IsHTML_rawHeader(p) == p.PageType # NoType /\ p.PageType.ContentType = "text/html"

IsHTML(p) == p.PageType # NoType /\ p.PageType.MediaType = "text/html"

\* Page.MetaTags: <<tags, issue>>
MetaTags(p) ==
    IF ~IsHTML(p)
    THEN <<NoMap, newIssue(p.TargetURL, "RESOURCE_W-0100",
                           "Meta tags not available in non-HTML content", FALSE)>>
    ELSE IF ~p.HTMLParsed
    THEN <<NoMap, newIssue(p.TargetURL, "RESOURCE_W-0101",
                           "Meta tags not available in unparsed HTML", FALSE)>>
    ELSE <<p.MetaPropertyTags, NoErr>>

\* a MetaTag that reports every key as missing
MetaTag_neverFound(p, key) ==
    LET r == MetaTags(p)
    IN  [key |-> key, value |-> <<>>, ok |-> FALSE, issue |-> r[2]]

\* Page.MetaTag: value is <<v>> when a value is returned and <<>> for nil
MetaTag(p, key) ==
    LET r == MetaTags(p)
    IN  IF r[2] # NoErr
        THEN [key |-> key, value |-> <<>>, ok |-> FALSE, issue |-> r[2]]
        ELSE IF key \in DOMAIN r[1]
             THEN [key |-> key, value |-> <<r[1][key]>>, ok |-> TRUE, issue |-> NoErr]
             ELSE [key |-> key, value |-> <<>>, ok |-> FALSE, issue |-> NoErr]

-----------------------------------------------------------------------------
(* html.Node trees and the traversal closure f of parsePageMetaData.        *)

Attr(k, v) == [Key |-> k, Val |-> v]
El(tag, attrs, kids) == [Type |-> "Element", Data |-> tag, Attr |-> attrs, Kids |-> kids]
DocumentNode(kids) == [Type |-> "Document", Data |-> <<>>, Attr |-> <<>>, Kids |-> kids]

IsElement(n, tag) == n.Type = "Element" /\ EqualFold(n.Data, tag)

\* inner loop of page.go:128-140: every content attribute is matched
RECURSIVE refreshLoop(_, _, _)
refreshLoop(attrs, j, p) ==
    IF j > Len(attrs) THEN p
    ELSE IF EqualFold(attrs[j].Key, sContent)
    THEN LET contentValue == TrimSpace(attrs[j].Val)
             parts == metaRefreshContentRegEx(contentValue)
         IN  IF parts # NoMatch /\ Len(parts) = 3
             THEN refreshLoop(attrs, j + 1,
                     [p EXCEPT !.IsHTMLRedirect = TRUE,
                               !.MetaRefreshTagContentURLText = parts[3]])
             ELSE refreshLoop(attrs, j + 1, p)
    ELSE refreshLoop(attrs, j + 1, p)

\* an inner loop that keeps the first value stored for a key
RECURSIVE propertyLoop_firstWins(_, _, _, _)
propertyLoop_firstWins(attrs, j, propertyName, p) ==
    IF j > Len(attrs) THEN p
    ELSE IF EqualFold(attrs[j].Key, sContent) /\ propertyName \notin DOMAIN p.MetaPropertyTags
    THEN propertyLoop_firstWins(attrs, j + 1, propertyName,
            [p EXCEPT !.MetaPropertyTags = MapPut(@, propertyName, attrs[j].Val)])
    ELSE propertyLoop_firstWins(attrs, j + 1, propertyName, p)

\* inner loop of page.go:144-148
RECURSIVE propertyLoop(_, _, _, _)
propertyLoop(attrs, j, propertyName, p) ==
    IF j > Len(attrs) THEN p
    ELSE IF EqualFold(attrs[j].Key, sContent)
    THEN propertyLoop(attrs, j + 1, propertyName,
            [p EXCEPT !.MetaPropertyTags = MapPut(@, propertyName, attrs[j].Val)])
    ELSE propertyLoop(attrs, j + 1, propertyName, p)

\* the loop over n.Attr, page.go:126-150
RECURSIVE attrLoop(_, _, _)
attrLoop(attrs, i, p) ==
    IF i > Len(attrs) THEN p
    ELSE LET a  == attrs[i]
             p1 == IF EqualFold(a.Key, sHttpEquiv) /\ EqualFold(TrimSpace(a.Val), sRefresh)
                   THEN refreshLoop(attrs, 1, p) ELSE p
             p2 == IF EqualFold(a.Key, sProperty) \/ EqualFold(a.Key, sName)
                   THEN propertyLoop(attrs, 1, a.Val, p1) ELSE p1
         IN  attrLoop(attrs, i + 1, p2)

\* a flag that follows the node instead of latching
inHeadAfter_unlatched(n, flag) == IsElement(n, sHead)

\* page.go:122-124: the flag is set at a head element and never cleared
inHeadAfter(n, flag) == IF IsElement(n, sHead) THEN TRUE ELSE flag

\* page.go:125-151: what visiting node n does to the Page
visitNode(n, flag, p) ==
    IF inHeadAfter(n, flag) /\ IsElement(n, sMeta) THEN attrLoop(n.Attr, 1, p) ELSE p

-----------------------------------------------------------------------------
(* Response bodies.  A body is given as the node tree html.Parse builds     *)
(* from it, or ReadError when reading the body fails.                       *)

MaxRep == 2    \* most digits / white-space characters repeated in a refresh content

ReadError == [nil |-> "Body"]

kT   == <<"o","g",":","t">>
kTup == <<"O","G",":","T">>
kTsp == <<" ","o","g",":","t">>
kD   == <<"d">>
kMissing == <<"m","i","s","s">>
QueryKeys == {kT, kTup, kTsp, kD, kMissing}

sDiv   == <<"d","i","v">>
sHtml  == <<"h","t","m","l">>
sBody  == <<"b","o","d","y">>
sTitle == <<"t","i","t","l","e">>
target == <<"h","/","x">>

Meta(attrs) == El(sMeta, attrs, <<>>)

eDiv   == El(sDiv, <<Attr(sProperty, kT), Attr(sContent, <<"v">>)>>, <<>>)
ePropA == Meta(<<Attr(sProperty, kT), Attr(sContent, <<"a">>)>>)
eNameB == Meta(<<Attr(sName, kT), Attr(sContent, <<"b">>)>>)

\* elements put in the slots of the metadata documents
MetaEls ==
    { eDiv, ePropA, eNameB,
      Meta(<<Attr(sProperty, kT)>>),
      Meta(<<Attr(sProperty, kTup), Attr(sContent, <<"c">>)>>),
      Meta(<<Attr(sContent, <<"d">>), Attr(sName, kTsp)>>),
      Meta(<<Attr(sName, kD), Attr(sProperty, kT), Attr(sContent, <<"e">>)>>),
      Meta(<<Attr(sHttpEquiv, <<"R","e","f","r","e","s","h">>),
             Attr(sContent, <<"2",";","u","r","l","=">> \o target),
             Attr(sName, kT)>>) }

\* <html><head>x y</head><body>z</body></html>
HeadBodyDoc(x, y, z) ==
    DocumentNode(<<El(sHtml, <<>>, <<El(sHead, <<>>, <<x, y>>), El(sBody, <<>>, <<z>>)>>)>>)

\* a tree with an element before the head element; html.Parse moves such an
\* element into the head, the traversal itself accepts any tree
PreHeadDoc(x, z) ==
    DocumentNode(<<El(sHtml, <<>>, <<x, El(sHead, <<>>, <<>>), El(sBody, <<>>, <<z>>)>>)>>)

Rep(c, n) == [i \in 1..n |-> c]
Digits(n) == [i \in 1..n |-> IF i = 1 THEN "1" ELSE "0"]

RefreshContents ==
    { Digits(a) \o Rep(" ", b) \o <<";">> \o Rep(" ", c) \o sUrlEq \o target :
        a \in 0..MaxRep, b \in 0..MaxRep, c \in 0..MaxRep }
    \cup
    { <<" ","2",";","u","r","l","=">> \o target \o <<" ">>,
      <<"2",";","U","R","L","=">> \o target,
      <<"2","u","r","l","=">> \o target,
      <<>>,
      <<"2",";","u","r","l","=">>,
      <<"2",";","u","r","l","=","a","\n","b">>,
      <<"a","2",";","u","r","l","=">> \o target,
      <<"2","\t",";","u","r","l","=", " ">> \o target }

RefreshValues == { sRefresh, <<" ","R","E","F","R","E","S","H"," ">>, <<"o","t","h","e","r">> }

RefreshMetas ==
    { Meta(<<Attr(sHttpEquiv, v), Attr(sContent, c)>>) : v \in RefreshValues, c \in RefreshContents }
    \cup { Meta(<<Attr(sContent, c), Attr(sHttpEquiv, sRefresh)>>) : c \in RefreshContents }
    \cup { Meta(<<Attr(sHttpEquiv, sRefresh)>>) }

EarlierRefresh == Meta(<<Attr(sHttpEquiv, sRefresh), Attr(sContent, <<"0",";","u","r","l","=","y">>)>>)

RefreshDocs ==
    { HeadBodyDoc(pre, m, El(sDiv, <<>>, <<>>)) :
        pre \in {El(sTitle, <<>>, <<>>), EarlierRefresh}, m \in RefreshMetas }

MetaDocs ==
    { HeadBodyDoc(x, y, z) : x \in MetaEls, y \in MetaEls, z \in MetaEls }
    \cup { PreHeadDoc(x, z) : x \in MetaEls, z \in MetaEls }

\* bodies served to the whole pipeline
PipelineDocs ==
    { HeadBodyDoc(ePropA, EarlierRefresh, eDiv),
      HeadBodyDoc(El(sTitle, <<>>, <<>>), El(sTitle, <<>>, <<>>), El(sDiv, <<>>, <<>>)) }

-----------------------------------------------------------------------------
(* Values exchanged with the environment.                                   *)

callVars  == <<variant, factory, policy, options, origURLtext>>
fetchVars == <<clientCalls, reqBuilt, hooks, netCalls>>
ansVars   == <<detectAns, parseAns, stopAns, downloadRet>>
walkVars  == <<stack, inHead, parseState>>

URLTexts == {"", ":bad", "http://t"}
\* statuses and Content-Type headers the servers answer with; the mock
\* responses served to concurrent resolutions (cur # 0) are two of each
Statuses == IF cur = 0 THEN {200, 204, 404, 500} ELSE {200, 404}
ContentTypes ==
    IF cur = 0
    THEN {"", "text/html", "Text/HTML; charset=UTF-8", "application/pdf", "text/html; charset"}
    ELSE {"text/html", "application/pdf"}
NoRet == [nil |-> "MetaTag"]
NoOutcome == [nil |-> "outcome"]

\* len(origURLtext) == 0 (factory.go:148, page.go:38, issue.go:218)
IsBlank_never(text) == FALSE
IsBlank(text) == text = ""

\* http.NewRequest fails when the URL text cannot be parsed
NewRequestFails(text) == text = ":bad"

\* NewPageType: <<Type, error>>; the media type is the lower-cased type/subtype
\* of the header value, the parameters are kept as written, and a value that
\* is no MIME media type is an error
NewPageType(contentType) ==
    CASE contentType = "text/html" ->
           <<[ContentType |-> contentType, MediaType |-> "text/html", Params |-> "none"], NoErr>>
      [] contentType = "Text/HTML; charset=UTF-8" ->
           <<[ContentType |-> contentType, MediaType |-> "text/html",
              Params |-> "charset=UTF-8"], NoErr>>
      [] contentType = "application/pdf" ->
           <<[ContentType |-> contentType, MediaType |-> "application/pdf",
              Params |-> "none"], NoErr>>
      [] OTHER ->
           <<NoType, [type |-> "Error", Code |-> 500,
                      Message |-> "UnableToClassifyMediaType"]>>

HTMLType == NewPageType("text/html")[1]

\* fmt.Sprintf("%d", n) for n >= 0
RECURSIVE Decimal(_)
Decimal(n) ==
    LET d == <<"0","1","2","3","4","5","6","7","8","9">>[(n % 10) + 1]
    IN  IF n < 10 THEN <<d>> ELSE Append(Decimal(n \div 10), d)

targetURLIsBlankError == [type |-> "Error", Code |-> 50, Message |-> "TargetURL is blank"]

Errorf(message, err) == [type |-> "wrapError", Message |-> message, Unwrap |-> err]

\* an error that carries the error's own code where the status belongs
InvalidHTTPRespStatusCodeError_codeOnly(statusCode) ==
    [type |-> "InvalidHTTPRespStatusCodeError", Code |-> 200, HTTPStatusCode |-> 200]

\* factory.go:165-170
InvalidHTTPRespStatusCodeError(statusCode) ==
    [type |-> "InvalidHTTPRespStatusCodeError", Code |-> 200, HTTPStatusCode |-> statusCode]

\* issue.go:235-238
DefaultFactory_InvalidHTTPRespStatusCodeError(url, statusCode) ==
    [type |-> "InvalidHTTPRespStatusCodeError", URL |-> url, HTTPStatusCode |-> statusCode]

\* unnamed/part_003:54-61 and issue.go:56-63: the code is
\* Sprintf("%s-HTTP-%d", InvalidHTTPRespStatusCode, httpRespStatusCode)
newHTTPResponseIssue(context, httpRespStatusCode, message, isError) ==
    [context |-> context,
     code |-> <<"RESOURCE_E-0300", "-HTTP-">> \o Decimal(httpRespStatusCode),
     message |-> message, isError |-> isError]

SomeAttachment == [ContentType |-> "declared", DestPath |-> "tempFile-0", AllIssues |-> <<>>]
DownloadError == [type |-> "Error", Code |-> 700, Message |-> "download failed"]

\* what a downloader can hand back: (ok, attachment, error)
DownloadOutcomes ==
    { [ok |-> TRUE,  attachment |-> SomeAttachment, err |-> NoErr],
      [ok |-> TRUE,  attachment |-> NoAttachment,   err |-> NoErr],
      [ok |-> FALSE, attachment |-> SomeAttachment, err |-> NoErr],
      [ok |-> FALSE, attachment |-> SomeAttachment, err |-> DownloadError],
      [ok |-> FALSE, attachment |-> NoAttachment,   err |-> DownloadError] }

\* the Response as the resolver sees it; the body of a non-HTML response is
\* never parsed and stays opaque
Bodies(contentType) ==
    IF NewPageType(contentType)[2] = NoErr /\ NewPageType(contentType)[1].MediaType = "text/html"
    THEN PipelineDocs \cup {ReadError}
    ELSE {[nil |-> "bytes"]}

Response(url, status, contentType, body) ==
    [StatusCode |-> status, ContentType |-> contentType, Body |-> body,
     RequestURL |-> url, closed |-> FALSE, reads |-> 0]

\* Page.IsValid of the issue-list Page (page.go:206-209)
IsValid(p) == p.AllIssues = <<>>

\* Page.IsValid of the Page that factory.go and issue.go fill: the valid flag
IsValid_flag(p) == p.valid

-----------------------------------------------------------------------------
(* Page.parsePageMetaData (page.go:111-158), one node per step.             *)

\* html.Parse returned a document: defer the Close, start f at the root
parsePageMetaData_Parse ==
    /\ pc = "ExtractingMetadata" /\ parseState = "none"
    /\ resp.Body # ReadError
    /\ parseState' = "ok"
    /\ stack' = <<resp.Body>>
    /\ inHead' = FALSE
    /\ resp' = [resp EXCEPT !.reads = @ + 1]
    /\ UNCHANGED <<concVars, fileVars, callVars, fetchVars, ansVars, pc, page, retErr, downloadCalls, metaTagRet>>

\* html.Parse failed: record the issue and return before the Close is deferred
parsePageMetaData_ParseError ==
    /\ pc = "ExtractingMetadata" /\ parseState = "none"
    /\ resp.Body = ReadError
    /\ parseState' = "error"
    /\ resp' = [resp EXCEPT !.reads = @ + 1]
    /\ page' = [page EXCEPT !.AllIssues =
                   Append(@, newIssue(page.TargetURL, <<"RESOURCE_E-0400">>, "parseError", TRUE))]
    /\ UNCHANGED <<concVars, fileVars, callVars, fetchVars, ansVars, pc, retErr, downloadCalls,
                   stack, inHead, metaTagRet>>

\* one call of the closure f: visit the node, then its children in order
parsePageMetaData_f ==
    /\ pc = "ExtractingMetadata" /\ parseState = "ok" /\ stack # <<>>
    /\ LET n == Head(stack)
       IN  /\ inHead' = inHeadAfter(n, inHead)
           /\ page' = visitNode(n, inHead, page)
           /\ stack' = n.Kids \o Tail(stack)
    /\ UNCHANGED <<concVars, fileVars, callVars, fetchVars, ansVars, pc, resp, retErr, downloadCalls,
                   parseState, metaTagRet>>

\* a caller asks the returned Page for one meta tag
MetaTagCall ==
    /\ pc = "Done" /\ page # NoPage
    /\ \E key \in QueryKeys :
          metaTagRet' = IF IsHTMLPanics(page)
                        THEN [key |-> key, value |-> <<>>, ok |-> FALSE,
                              issue |-> [nil |-> "panic"]]
                        ELSE MetaTag(page, key)
    /\ UNCHANGED <<concVars, fileVars, callVars, fetchVars, ansVars, walkVars, pc, resp, page, retErr,
                   downloadCalls>>

-----------------------------------------------------------------------------
(* NewPageFromURL and NewPageFromHTTPResponse (page.go:36-109).             *)

\* page.go:37-55: argument checks, client, request, User-Agent header
NewPageFromURL_Begin ==
    /\ pc = "Start" /\ variant = "NewPageFromURL"
    /\ IF IsBlank(origURLtext)
       THEN /\ retErr' = newIssue("BlankTargetURL", <<"RESOURCE_E-0050">>,
                                  "TargetURL is blank in resource.NewPageFromURL", TRUE)
            /\ pc' = "Error"
            /\ UNCHANGED fetchVars
       ELSE IF policy = "nil"
       THEN /\ retErr' = newIssue(origURLtext, <<"RESOURCE_E-0600">>,
                                  "Policy is nil in resource.NewPageFromURL", TRUE)
            /\ pc' = "Error"
            /\ UNCHANGED fetchVars
       ELSE /\ clientCalls' = clientCalls + 1
            /\ reqBuilt' = reqBuilt + 1
            /\ UNCHANGED netCalls
            /\ IF NewRequestFails(origURLtext)
               THEN /\ retErr' = newIssue(origURLtext, <<"RESOURCE_E-0100">>,
                                          "Unable to create HTTP request", TRUE)
                    /\ pc' = "Error"
                    /\ UNCHANGED hooks
               ELSE /\ hooks' = hooks \o <<"http.Client{}", "http.NewRequest", "User-Agent">>
                    /\ pc' = "Fetching"
                    /\ UNCHANGED retErr
    /\ UNCHANGED <<concVars, fileVars, callVars, ansVars, walkVars, resp, page, downloadCalls, metaTagRet>>

\* page.go:56-65 and 70-90: the GET, the status check, the new Page and the
\* classification of the Content-Type header
NewPageFromURL_Do ==
    /\ pc = "Fetching" /\ variant = "NewPageFromURL"
    /\ netCalls' = netCalls + 1
    /\ \/ /\ retErr' = newIssue(origURLtext, <<"RESOURCE_E-0200">>,
                                "Unable to execute HTTP GET request", TRUE)
          /\ pc' = "Error"
          /\ UNCHANGED <<resp, page>>
       \/ \E status \in Statuses, contentType \in ContentTypes :
          \E body \in Bodies(contentType) :
            /\ resp' = Response(origURLtext, status, contentType, body)
            /\ IF status # 200
               THEN /\ retErr' = newHTTPResponseIssue(origURLtext, status,
                                     "Invalid HTTP Response Status Code", TRUE)
                    /\ pc' = "Error"
                    /\ UNCHANGED page
               ELSE LET result == NewPage(origURLtext)
                        typ == NewPageType(contentType)
                    IN  /\ UNCHANGED retErr
                        /\ IF contentType # "" /\ typ[2] # NoErr
                           THEN /\ page' = [result EXCEPT !.AllIssues = Append(@,
                                              newIssue(origURLtext, <<"RESOURCE_E-0500">>,
                                                       typ[2].Message, TRUE))]
                                /\ pc' = "Done"
                           ELSE /\ page' = [result EXCEPT !.PageType =
                                              IF contentType # "" THEN typ[1] ELSE NoType]
                                /\ pc' = "Classified"
    /\ UNCHANGED <<concVars, fileVars, callVars, clientCalls, reqBuilt, hooks, ansVars, walkVars,
                   downloadCalls, metaTagRet>>

\* page.go:91 and 98: the policy decides between extraction and download
NewPageFromHTTPResponse_Dispatch ==
    /\ pc = "Classified" /\ variant = "NewPageFromURL"
    /\ IF resp.ContentType # "" /\ IsHTML(page)
       THEN \E d \in BOOLEAN, m \in BOOLEAN :
              /\ detectAns' = IF d THEN "true" ELSE "false"
              /\ parseAns' = IF d THEN "none" ELSE IF m THEN "true" ELSE "false"
              /\ UNCHANGED <<stopAns, downloadRet>>
              /\ pc' = IF d \/ m THEN "ExtractingMetadata" ELSE "Downloading"
       ELSE /\ pc' = "Downloading"
            /\ UNCHANGED ansVars
    /\ UNCHANGED <<concVars, fileVars, callVars, fetchVars, walkVars, resp, page, retErr, downloadCalls,
                   metaTagRet>>

\* parsePageMetaData has returned (the deferred Close ran if it was
\* registered); page.go:93-94 marks the Page parsed and returns it
NewPageFromHTTPResponse_htmlReturn ==
    /\ pc = "ExtractingMetadata" /\ variant = "NewPageFromURL"
    /\ parseState # "none" /\ stack = <<>>
    /\ resp' = [resp EXCEPT !.closed = (parseState = "ok")]
    /\ page' = [page EXCEPT !.HTMLParsed = TRUE]
    /\ pc' = "Done"
    /\ UNCHANGED <<concVars, fileVars, callVars, fetchVars, ansVars, walkVars, retErr, downloadCalls, metaTagRet>>

\* an advisory issue a Policy may hand back from DownloadContent: the []Issue
\* it returns is the caller's, and Issue has IsWarning next to IsError
\* (policy.go:21, issue.go:24-31)
PolicyWarning(url) == newIssue(url, <<"POLICY_W-0001">>, "advisory", FALSE)

\* page.go:98-108: policy.DownloadContent, its issues, its attachment
NewPageFromHTTPResponse_Download ==
    /\ pc = "Downloading" /\ variant = "NewPageFromURL"
    /\ downloadCalls' = downloadCalls + 1
    /\ \E o \in DownloadOutcomes, warned \in BOOLEAN :
          LET issues == (IF warned THEN <<PolicyWarning(page.TargetURL)>> ELSE <<>>)
                        \o (IF o.err # NoErr
                            THEN <<newIssue(page.TargetURL, <<"RESOURCE_E-0700">>,
                                            o.err.Message, TRUE)>>
                            ELSE <<>>)
          IN  /\ downloadRet' = o
              /\ page' = [page EXCEPT
                         !.AllIssues = @ \o issues,
                         !.DownloadedAttachment = IF o.ok /\ o.attachment # NoAttachment
                                                  THEN o.attachment ELSE @]
    /\ pc' = "Done"
    /\ UNCHANGED <<concVars, fileVars, callVars, fetchVars, detectAns, parseAns, stopAns, walkVars, resp, retErr,
                   metaTagRet>>

-----------------------------------------------------------------------------
(* factory.PageFromURL and factory.pageFromHTTPResponse (factory.go).       *)

Answer(b) == IF b THEN "true" ELSE "false"

\* factory.go:108-120: which client the request is sent with
httpClient(fac) ==
    IF fac.clientProvider THEN "clientProvider.HTTPClient"
    ELSE IF fac.provideClientFunc THEN "provideClientFunc"
    ELSE "http.Client{}"

\* preparers run with the function before the interface
prepareHTTPRequest_funcFirst(fac) ==
    (IF fac.prepReqFunc THEN <<"prepReqFunc">> ELSE <<>>)
    \o (IF fac.reqPreparer THEN <<"reqPreparer.OnPrepareHTTPRequest">> ELSE <<>>)

\* factory.go:122-130: the preparers that run, in order
prepareHTTPRequest(fac) ==
    (IF fac.reqPreparer THEN <<"reqPreparer.OnPrepareHTTPRequest">> ELSE <<>>)
    \o (IF fac.prepReqFunc THEN <<"prepReqFunc">> ELSE <<>>)

\* factory.go:132-137; answer is what the configured policy says when asked
detectRedirectsInHTMLContent(fac, answer) ==
    IF fac.detectRedirectsPolicy THEN answer ELSE TRUE

\* factory.go:139-144: the configured policy is asked, its answer is dropped
parseMetaDataInHTMLContent(fac, answer) == TRUE

\* factory.go:147-158
factory_PageFromURL_Begin ==
    /\ pc = "Start" /\ variant = "factory"
    /\ IF IsBlank(origURLtext)
       THEN /\ retErr' = targetURLIsBlankError
            /\ pc' = "Error"
            /\ UNCHANGED fetchVars
       ELSE /\ clientCalls' = clientCalls + 1
            /\ reqBuilt' = reqBuilt + 1
            /\ UNCHANGED netCalls
            /\ IF NewRequestFails(origURLtext)
               THEN /\ retErr' = Errorf("Unable to create HTTP request",
                                        [type |-> "url.Error"])
                    /\ pc' = "Error"
                    /\ hooks' = hooks \o <<httpClient(factory), "http.NewRequest">>
               ELSE /\ hooks' = hooks \o <<httpClient(factory), "http.NewRequest">>
                                      \o prepareHTTPRequest(factory)
                    /\ pc' = "Fetching"
                    /\ UNCHANGED retErr
    /\ UNCHANGED <<concVars, fileVars, callVars, ansVars, walkVars, resp, page, downloadCalls, metaTagRet>>

\* a GET that is tried again from the start when it fails
factory_PageFromURL_Do_retry ==
    /\ pc = "Fetching" /\ variant = "factory"
    /\ netCalls' = netCalls + 1
    /\ \/ /\ pc' = "Start"
          /\ UNCHANGED <<resp, page, retErr>>
       \/ \E status \in Statuses, contentType \in ContentTypes :
          \E body \in Bodies(contentType) :
            /\ resp' = Response(origURLtext, status, contentType, body)
            /\ IF status # 200
               THEN /\ retErr' = Errorf("Unexpected HTTP Response Status Code",
                                        InvalidHTTPRespStatusCodeError(status))
                    /\ pc' = "Error"
                    /\ UNCHANGED page
               ELSE LET result == NewPage(origURLtext)
                        typ == NewPageType(contentType)
                    IN  IF contentType # "" /\ typ[2] # NoErr
                        THEN /\ page' = result
                             /\ retErr' = typ[2]
                             /\ pc' = "Error"
                        ELSE /\ page' = [result EXCEPT !.PageType =
                                           IF contentType # "" THEN typ[1] ELSE NoType]
                             /\ pc' = "Classified"
                             /\ UNCHANGED retErr
    /\ UNCHANGED <<concVars, fileVars, callVars, clientCalls, reqBuilt, hooks, ansVars, walkVars,
                   downloadCalls, metaTagRet>>

\* factory.go:159-174 and 178-189: the GET, the status check, the new Page and
\* the classification of the Content-Type header
factory_PageFromURL_Do ==
    /\ pc = "Fetching" /\ variant = "factory"
    /\ netCalls' = netCalls + 1
    /\ \/ /\ retErr' = Errorf("Unable to execute HTTP GET request", [type |-> "url.Error"])
          /\ pc' = "Error"
          /\ UNCHANGED <<resp, page>>
       \/ \E status \in Statuses, contentType \in ContentTypes :
          \E body \in Bodies(contentType) :
            /\ resp' = Response(origURLtext, status, contentType, body)
            /\ IF status # 200
               THEN /\ retErr' = Errorf("Unexpected HTTP Response Status Code",
                                        InvalidHTTPRespStatusCodeError(status))
                    /\ pc' = "Error"
                    /\ UNCHANGED page
               ELSE LET result == NewPage(origURLtext)
                        typ == NewPageType(contentType)
                    IN  IF contentType # "" /\ typ[2] # NoErr
                        THEN /\ page' = result
                             /\ retErr' = typ[2]
                             /\ pc' = "Error"
                        ELSE /\ page' = [result EXCEPT !.PageType =
                                           IF contentType # "" THEN typ[1] ELSE NoType]
                             /\ pc' = "Classified"
                             /\ UNCHANGED retErr
    /\ UNCHANGED <<concVars, fileVars, callVars, clientCalls, reqBuilt, hooks, ansVars, walkVars,
                   downloadCalls, metaTagRet>>

\* factory.go:190 and 197, 210-211: extraction, download, or neither
factory_pageFromHTTPResponse_Dispatch ==
    /\ pc = "Classified" /\ variant = "factory"
    /\ \E d \in BOOLEAN, m \in BOOLEAN :
         LET html == resp.ContentType # "" /\ IsHTML(page)
             det == detectRedirectsInHTMLContent(factory, d)
             par == parseMetaDataInHTMLContent(factory, m)
         IN  /\ detectAns' = IF html /\ factory.detectRedirectsPolicy
                             THEN Answer(d) ELSE "none"
             /\ parseAns' = IF html /\ ~det /\ factory.parseMetaDataInHTMLContentPolicy
                            THEN Answer(m) ELSE "none"
             /\ UNCHANGED <<stopAns, downloadRet>>
             /\ IF html /\ (det \/ par)
                THEN pc' = "ExtractingMetadata" /\ UNCHANGED page
                ELSE IF factory.contentDownloader
                THEN pc' = "Downloading" /\ UNCHANGED page
                ELSE pc' = "Done" /\ page' = [page EXCEPT !.valid = TRUE]
    /\ UNCHANGED <<concVars, fileVars, callVars, fetchVars, walkVars, resp, retErr, downloadCalls, metaTagRet>>

\* a return that is missing: the HTML branch falls through to the download
factory_pageFromHTTPResponse_htmlReturn_fallThrough ==
    /\ pc = "ExtractingMetadata" /\ variant = "factory"
    /\ parseState # "none" /\ stack = <<>>
    /\ resp' = [resp EXCEPT !.closed = (parseState = "ok")]
    /\ page' = [page EXCEPT !.HTMLParsed = TRUE]
    /\ pc' = "Downloading"
    /\ UNCHANGED <<concVars, fileVars, callVars, fetchVars, ansVars, walkVars, retErr, downloadCalls, metaTagRet>>

\* factory.go:191-193: parsePageMetaData has returned; mark the Page parsed
\* and return it with a nil error
factory_pageFromHTTPResponse_htmlReturn ==
    /\ pc = "ExtractingMetadata" /\ variant = "factory"
    /\ parseState # "none" /\ stack = <<>>
    /\ resp' = [resp EXCEPT !.closed = (parseState = "ok")]
    /\ page' = [page EXCEPT !.HTMLParsed = TRUE]
    /\ pc' = "Done"
    /\ UNCHANGED <<concVars, fileVars, callVars, fetchVars, ansVars, walkVars, retErr, downloadCalls, metaTagRet>>

\* a download step that keeps the attachment handed back next to an error
factory_pageFromHTTPResponse_Download_keepsAttachment ==
    /\ pc = "Downloading" /\ variant = "factory"
    /\ downloadCalls' = downloadCalls + 1
    /\ \E o \in DownloadOutcomes, stop \in BOOLEAN :
         LET asked == o.err # NoErr /\ factory.contentDownloaderErrorPolicy
         IN  /\ stopAns' = IF asked THEN Answer(stop) ELSE "none"
             /\ downloadRet' = o
             /\ UNCHANGED <<detectAns, parseAns>>
             /\ IF asked /\ stop
                THEN /\ retErr' = o.err
                     /\ pc' = "Error"
                     /\ UNCHANGED page
                ELSE /\ page' = [page EXCEPT
                                   !.DownloadedAttachment =
                                       IF o.attachment # NoAttachment
                                       THEN o.attachment ELSE @,
                                   !.valid = TRUE]
                     /\ pc' = "Done"
                     /\ UNCHANGED retErr
    /\ UNCHANGED <<concVars, fileVars, callVars, fetchVars, walkVars, resp, metaTagRet>>

\* factory.go:197-211: the downloader, the download-error policy, valid
factory_pageFromHTTPResponse_Download ==
    /\ pc = "Downloading" /\ variant = "factory"
    /\ downloadCalls' = downloadCalls + 1
    /\ \E o \in DownloadOutcomes, stop \in BOOLEAN :
         LET asked == o.err # NoErr /\ factory.contentDownloaderErrorPolicy
         IN  /\ stopAns' = IF asked THEN Answer(stop) ELSE "none"
             /\ downloadRet' = o
             /\ UNCHANGED <<detectAns, parseAns>>
             /\ IF asked /\ stop
                THEN /\ retErr' = o.err
                     /\ pc' = "Error"
                     /\ UNCHANGED page
                ELSE /\ page' = [page EXCEPT
                                   !.DownloadedAttachment =
                                       IF o.err = NoErr /\ o.ok /\ o.attachment # NoAttachment
                                       THEN o.attachment ELSE @,
                                   !.valid = TRUE]
                     /\ pc' = "Done"
                     /\ UNCHANGED retErr
    /\ UNCHANGED <<concVars, fileVars, callVars, fetchVars, walkVars, resp, metaTagRet>>

-----------------------------------------------------------------------------
(* DefaultFactory.PageFromURL and DefaultFactory.pageFromHTTPResponse       *)
(* (issue.go:90-290).                                                       *)

\* issue.go:178-190
DefaultFactory_httpClient(fac) ==
    IF fac.clientProvider THEN "clientProvider.HTTPClient"
    ELSE IF fac.provideClientFunc THEN "provideClientFunc"
    ELSE "http.Client{}"

\* issue.go:192-200
DefaultFactory_prepareHTTPRequest(fac) ==
    (IF fac.reqPreparer THEN <<"reqPreparer.OnPrepareHTTPRequest">> ELSE <<>>)
    \o (IF fac.prepReqFunc THEN <<"prepReqFunc">> ELSE <<>>)

\* issue.go:202-207
DefaultFactory_detectRedirectsInHTMLContent(fac, answer) ==
    IF fac.detectRedirectsPolicy THEN answer ELSE TRUE

\* issue.go:209-214: the configured policy is asked, its answer is dropped
DefaultFactory_parseMetaDataInHTMLContent(fac, answer) == TRUE

\* issue.go:217-228
DefaultFactory_PageFromURL_Begin ==
    /\ pc = "Start" /\ variant = "DefaultFactory"
    /\ IF IsBlank(origURLtext)
       THEN /\ retErr' = targetURLIsBlankError
            /\ pc' = "Error"
            /\ UNCHANGED fetchVars
       ELSE /\ clientCalls' = clientCalls + 1
            /\ reqBuilt' = reqBuilt + 1
            /\ UNCHANGED netCalls
            /\ IF NewRequestFails(origURLtext)
               THEN /\ retErr' = Errorf("Unable to create HTTP request",
                                        [type |-> "url.Error"])
                    /\ pc' = "Error"
                    /\ hooks' = hooks \o <<DefaultFactory_httpClient(factory), "http.NewRequest">>
               ELSE /\ hooks' = hooks \o <<DefaultFactory_httpClient(factory), "http.NewRequest">>
                                      \o DefaultFactory_prepareHTTPRequest(factory)
                    /\ pc' = "Fetching"
                    /\ UNCHANGED retErr
    /\ UNCHANGED <<concVars, fileVars, callVars, ansVars, walkVars, resp, page, downloadCalls, metaTagRet>>

\* issue.go:229-241 and 245-256
DefaultFactory_PageFromURL_Do ==
    /\ pc = "Fetching" /\ variant = "DefaultFactory"
    /\ netCalls' = netCalls + 1
    /\ \/ /\ retErr' = Errorf("Unable to execute HTTP GET request", [type |-> "url.Error"])
          /\ pc' = "Error"
          /\ UNCHANGED <<resp, page>>
       \/ \E status \in Statuses, contentType \in ContentTypes :
          \E body \in Bodies(contentType) :
            /\ resp' = Response(origURLtext, status, contentType, body)
            /\ IF status # 200
               THEN /\ retErr' = DefaultFactory_InvalidHTTPRespStatusCodeError(origURLtext, status)
                    /\ pc' = "Error"
                    /\ UNCHANGED page
               ELSE LET result == NewPage(origURLtext)
                        typ == NewPageType(contentType)
                    IN  IF contentType # "" /\ typ[2] # NoErr
                        THEN /\ page' = result
                             /\ retErr' = typ[2]
                             /\ pc' = "Error"
                        ELSE /\ page' = [result EXCEPT !.PageType =
                                           IF contentType # "" THEN typ[1] ELSE NoType]
                             /\ pc' = "Classified"
                             /\ UNCHANGED retErr
    /\ UNCHANGED <<concVars, fileVars, callVars, clientCalls, reqBuilt, hooks, ansVars, walkVars,
                   downloadCalls, metaTagRet>>

\* issue.go:265-273: the creator among the call's options, overridden by the
\* factory's own
attachmentCreator(fac, opts) == fac.fileAttachmentCreator \/ opts

\* issue.go:257 and 265-275, 288-289
DefaultFactory_pageFromHTTPResponse_Dispatch ==
    /\ pc = "Classified" /\ variant = "DefaultFactory"
    /\ \E d \in BOOLEAN, m \in BOOLEAN :
         LET html == resp.ContentType # "" /\ IsHTML(page)
             det == DefaultFactory_detectRedirectsInHTMLContent(factory, d)
             par == DefaultFactory_parseMetaDataInHTMLContent(factory, m)
         IN  /\ detectAns' = IF html /\ factory.detectRedirectsPolicy
                             THEN Answer(d) ELSE "none"
             /\ parseAns' = IF html /\ ~det /\ factory.parseMetaDataInHTMLContentPolicy
                            THEN Answer(m) ELSE "none"
             /\ UNCHANGED <<stopAns, downloadRet>>
             /\ IF html /\ (det \/ par)
                THEN pc' = "ExtractingMetadata" /\ UNCHANGED page
                ELSE IF attachmentCreator(factory, options)
                THEN pc' = "Downloading" /\ UNCHANGED page
                ELSE pc' = "Done" /\ page' = [page EXCEPT !.valid = TRUE]
    /\ UNCHANGED <<concVars, fileVars, callVars, fetchVars, walkVars, resp, retErr, downloadCalls, metaTagRet>>

\* issue.go:258-261
DefaultFactory_pageFromHTTPResponse_htmlReturn ==
    /\ pc = "ExtractingMetadata" /\ variant = "DefaultFactory"
    /\ parseState # "none" /\ stack = <<>>
    /\ resp' = [resp EXCEPT !.closed = (parseState = "ok")]
    /\ page' = [page EXCEPT !.HTMLParsed = TRUE, !.valid = TRUE]
    /\ pc' = "Done"
    /\ UNCHANGED <<concVars, fileVars, callVars, fetchVars, ansVars, walkVars, retErr, downloadCalls, metaTagRet>>

\* issue.go:275-289: DownloadFileFromHTTPResp, the download-error policy, valid
DefaultFactory_pageFromHTTPResponse_Download ==
    /\ pc = "Downloading" /\ variant = "DefaultFactory"
    /\ downloadCalls' = downloadCalls + 1
    /\ \E o \in DownloadOutcomes, stop \in BOOLEAN :
         LET asked == o.err # NoErr /\ factory.contentDownloaderErrorPolicy
         IN  /\ stopAns' = IF asked THEN Answer(stop) ELSE "none"
             /\ downloadRet' = o
             /\ UNCHANGED <<detectAns, parseAns>>
             /\ IF asked /\ stop
                THEN /\ retErr' = o.err
                     /\ pc' = "Error"
                     /\ UNCHANGED page
                ELSE /\ page' = [page EXCEPT
                                   !.DownloadedAttachment =
                                       IF o.err = NoErr /\ o.ok /\ o.attachment # NoAttachment
                                       THEN o.attachment ELSE @,
                                   !.valid = TRUE]
                     /\ pc' = "Done"
                     /\ UNCHANGED retErr
    /\ UNCHANGED <<concVars, fileVars, callVars, fetchVars, walkVars, resp, metaTagRet>>

-----------------------------------------------------------------------------
(* DownloadFile, FileAttachment.IsValid and FileAttachment.Delete (file.go). *)

sPdf     == <<"p","d","f">>
sPng     == <<"p","n","g">>
sUnknown == <<"u","n","k","n","o","w","n">>

\* names a CreateFile policy may give the destination
DestNames ==
    { <<"t","-","0">>,                      \* no extension
      <<"f",".","t","m","p">>,
      <<"f",".","t","a","r",".","g","z">>,
      <<"a",".","b","/","f">>,              \* the only '.' is in a directory name
      <<".","h">>,                          \* the name is all extension
      <<"f",".","p","d","f">> }             \* already carries the detected extension

\* path.Ext (file.go:146): scan from the end of the path back to the last '/',
\* return the text from the first '.' found, "" when none is
RECURSIVE ExtFrom(_, _)
ExtFrom(p, i) ==
    IF i < 1 \/ p[i] = "/" THEN <<>>
    ELSE IF p[i] = "." THEN SubSeq(p, i, Len(p))
    ELSE ExtFrom(p, i - 1)

Ext(p) == ExtFrom(p, Len(p))

\* a newPath that appends to the whole current path
newPath_noStrip(currentPath, extension) == currentPath \o <<".">> \o extension

\* file.go:145-147
newPath(currentPath, extension) ==
    SubSeq(currentPath, 1, Len(currentPath) - Len(Ext(currentPath))) \o <<".">> \o extension

\* types.Type: the zero value, and what filetype.Match can hand back with its
\* error: a known type, types.Unknown (extension "unknown") without an error,
\* and types.Unknown with an error
NoFileType  == [Extension |-> <<>>, MIME |-> ""]
UnknownType == [Extension |-> sUnknown, MIME |-> ""]
MatchOutcomes ==
    { [type |-> [Extension |-> sPdf, MIME |-> "application/pdf"], err |-> FALSE],
      [type |-> [Extension |-> sPng, MIME |-> "image/png"],       err |-> FALSE],
      [type |-> UnknownType, err |-> FALSE],
      [type |-> UnknownType, err |-> TRUE] }

NoFileRet == [nil |-> "return"]
PDFType == NewPageType("application/pdf")[1]

\* new(FileAttachment) with TargetURL and ContentType set (file.go:103-105)
NewFileAttachment(url, typ) ==
    [TargetURL |-> url, ContentType |-> typ, DestPath |-> <<>>,
     FileType |-> NoFileType, AllIssues |-> <<>>]

\* FileAttachment.IsValid (file.go:75-78)
FileAttachment_IsValid(a) == a.AllIssues = <<>>

\* the deferred calls run at a return after file.go:119, last deferred first
Deferred == <<"resp.Body.Close", "destFile.Close">>

\* file.go:93-110: the nil checks, the FileAttachment, the policy check
DownloadFile_Begin ==
    /\ fpc = "Start"
    /\ IF fileArgs.url = "nil"
       THEN /\ fileRet' = [ok |-> FALSE, attachment |-> NoAttachment,
                           issues |-> <<newIssue("NilTargetURL", <<"RESOURCE_E-0051">>,
                                                 "url is nil in resource.DownloadFile", TRUE)>>]
            /\ fpc' = "Returned"
            /\ UNCHANGED fileResult
       ELSE IF fileArgs.resp = "nil"
       THEN /\ fileRet' = [ok |-> FALSE, attachment |-> NoAttachment,
                           issues |-> <<newIssue("NilHTTPResponse", <<"RESOURCE_E-0051">>,
                                                 "http.Response is nil in resource.DownloadFile", TRUE)>>]
            /\ fpc' = "Returned"
            /\ UNCHANGED fileResult
       ELSE IF fileArgs.policy = "nil"
       THEN LET r == [NewFileAttachment(fileArgs.url, PDFType) EXCEPT !.AllIssues =
                         <<newIssue(fileArgs.url, <<"RESOURCE_E-0600">>,
                                    "Policy is nil in resource.DownloadFile", TRUE)>>]
            IN  /\ fileResult' = r
                /\ fileRet' = [ok |-> FALSE, attachment |-> r, issues |-> r.AllIssues]
                /\ fpc' = "Returned"
       ELSE /\ fileResult' = NewFileAttachment(fileArgs.url, PDFType)
            /\ fpc' = "CreateFile"
            /\ UNCHANGED fileRet
    /\ UNCHANGED <<concVars, resolveVars, fileArgs, fs, bodyClosed, destFile, createCalls, fileLog>>

\* file.go:112-120: policy.CreateFile, the two defers, DestPath
DownloadFile_CreateFile ==
    /\ fpc = "CreateFile"
    /\ createCalls' = createCalls + 1
    /\ \/ LET r == [fileResult EXCEPT !.AllIssues =
                       Append(@, newIssue(fileArgs.url, <<"CreateFile">>, "create failed", TRUE))]
          IN  /\ fileResult' = r
              /\ fileRet' = [ok |-> FALSE, attachment |-> r, issues |-> r.AllIssues]
              /\ fpc' = "Returned"
              /\ UNCHANGED <<fs, destFile, fileLog>>
       \/ \E name \in DestNames :
              /\ fs' = fs \cup {name}
              /\ destFile' = "open"
              /\ fileResult' = [fileResult EXCEPT !.DestPath = name]
              /\ fileLog' = Append(fileLog, "CreateFile")
              /\ fpc' = "Copy"
              /\ UNCHANGED fileRet
    /\ UNCHANGED <<concVars, resolveVars, fileArgs, bodyClosed>>

\* file.go:121-128 and 153: io.Copy, destFile.Close, AutoAssignExtension
DownloadFile_Copy ==
    /\ fpc = "Copy"
    /\ \/ LET r == [fileResult EXCEPT !.AllIssues =
                       Append(@, newIssue(fileArgs.url, <<"RESOURCE_E-0700">>, "copy failed", TRUE))]
          IN  /\ fileResult' = r
              /\ fileRet' = [ok |-> FALSE, attachment |-> r, issues |-> r.AllIssues]
              /\ fileLog' = fileLog \o <<"io.Copy failed">> \o Deferred
              /\ bodyClosed' = TRUE
              /\ destFile' = "closed"
              /\ fpc' = "Returned"
       \/ /\ destFile' = "closed"
          /\ IF fileArgs.policy = "auto"
             THEN /\ fileLog' = fileLog \o <<"io.Copy", "destFile.Close">>
                  /\ fpc' = "Open"
                  /\ UNCHANGED <<fileResult, fileRet, bodyClosed>>
             ELSE /\ fileLog' = fileLog \o <<"io.Copy", "destFile.Close">> \o Deferred
                  /\ fileRet' = [ok |-> TRUE, attachment |-> fileResult, issues |-> fileResult.AllIssues]
                  /\ bodyClosed' = TRUE
                  /\ fpc' = "Returned"
                  /\ UNCHANGED fileResult
    /\ UNCHANGED <<concVars, resolveVars, fileArgs, fs, createCalls>>

\* file.go:130-134: os.Open of the file just written
DownloadFile_Open ==
    /\ fpc = "Open"
    /\ \/ LET r == [fileResult EXCEPT !.AllIssues =
                       Append(@, newIssue(fileArgs.url, <<"RESOURCE_S-0200">>, "open failed", TRUE))]
          IN  /\ fileResult' = r
              /\ fileRet' = [ok |-> FALSE, attachment |-> r, issues |-> r.AllIssues]
              /\ fileLog' = fileLog \o <<"os.Open failed">> \o Deferred
              /\ bodyClosed' = TRUE
              /\ fpc' = "Returned"
       \/ /\ fileLog' = Append(fileLog, "os.Open")
          /\ fpc' = "Sniff"
          /\ UNCHANGED <<fileResult, fileRet, bodyClosed>>
    /\ UNCHANGED <<concVars, resolveVars, fileArgs, fs, destFile, createCalls>>

\* file.go:137-153: read the head, close, filetype.Match, the rename (whose
\* error is not looked at), FileType and DestPath, the return
DownloadFile_Sniff ==
    /\ fpc = "Sniff"
    /\ \E m \in MatchOutcomes, renamed \in BOOLEAN :
         LET currentPath == fileResult.DestPath
             np == newPath(currentPath, m.type.Extension)
             r == IF m.err THEN fileResult
                  ELSE [fileResult EXCEPT !.FileType = m.type, !.DestPath = np]
         IN  /\ fileResult' = r
             /\ fs' = IF ~m.err /\ renamed /\ currentPath \in fs
                      THEN (fs \ {currentPath}) \cup {np} ELSE fs
             /\ fileLog' = fileLog \o <<"file.Read", "file.Close", "filetype.Match">>
                              \o (IF m.err THEN <<>>
                                  ELSE IF renamed THEN <<"os.Rename">>
                                  ELSE <<"os.Rename failed">>)
                              \o Deferred
             /\ fileRet' = [ok |-> TRUE, attachment |-> r, issues |-> r.AllIssues]
    /\ bodyClosed' = TRUE
    /\ fpc' = "Returned"
    /\ UNCHANGED <<concVars, resolveVars, fileArgs, destFile, createCalls>>

\* FileAttachment.Delete (file.go:85-88): os.Remove(a.DestPath), error dropped
Delete ==
    /\ fpc = "Returned"
    /\ fileRet.attachment # NoAttachment
    /\ fs' = fs \ {fileRet.attachment.DestPath}
    /\ fileLog' = Append(fileLog, "os.Remove")
    /\ fpc' = "Deleted"
    /\ UNCHANGED <<concVars, resolveVars, fileArgs, fileResult, fileRet, bodyClosed, destFile, createCalls>>

-----------------------------------------------------------------------------
(* Several PageFromURL calls on one factory, each in its own goroutine.     *)
(* The variables of a resolution are the locals of the running goroutine;   *)
(* a switch parks them and resumes another goroutine.  The factory is the   *)
(* one object the goroutines share.                                         *)

NumResolutions == 2

\* the locals of PageFromURL, pageFromHTTPResponse and parsePageMetaData
Locals ==
    [pc |-> pc, origURLtext |-> origURLtext, clientCalls |-> clientCalls,
     reqBuilt |-> reqBuilt, hooks |-> hooks, netCalls |-> netCalls, resp |-> resp,
     page |-> page, retErr |-> retErr, detectAns |-> detectAns, parseAns |-> parseAns,
     stopAns |-> stopAns, downloadCalls |-> downloadCalls, downloadRet |-> downloadRet,
     stack |-> stack, inHead |-> inHead, parseState |-> parseState]

\* the locals of a call of PageFromURL(ctx, "http://t") that has not started
FreshLocals ==
    [pc |-> "Start", origURLtext |-> "http://t", clientCalls |-> 0,
     reqBuilt |-> 0, hooks |-> <<>>, netCalls |-> 0, resp |-> NoResp,
     page |-> NoPage, retErr |-> NoErr, detectAns |-> "none", parseAns |-> "none",
     stopAns |-> "none", downloadCalls |-> 0, downloadRet |-> NoOutcome,
     stack |-> <<>>, inHead |-> FALSE, parseState |-> "none"]

Running == [nil |-> "running"]

\* a switch under which inHead is one flag shared by all goroutines
Switch_sharedInHead ==
    /\ cur # 0
    /\ \E j \in (1..NumResolutions) \ {cur} :
         /\ saved' = [saved EXCEPT ![cur] = Locals, ![j] = Running]
         /\ cur' = j
         /\ pc' = saved[j].pc /\ origURLtext' = saved[j].origURLtext
         /\ clientCalls' = saved[j].clientCalls /\ reqBuilt' = saved[j].reqBuilt
         /\ hooks' = saved[j].hooks /\ netCalls' = saved[j].netCalls
         /\ resp' = saved[j].resp /\ page' = saved[j].page /\ retErr' = saved[j].retErr
         /\ detectAns' = saved[j].detectAns /\ parseAns' = saved[j].parseAns
         /\ stopAns' = saved[j].stopAns /\ downloadCalls' = saved[j].downloadCalls
         /\ downloadRet' = saved[j].downloadRet
         /\ stack' = saved[j].stack /\ parseState' = saved[j].parseState
         /\ UNCHANGED inHead
    /\ UNCHANGED <<fileVars, variant, factory, policy, options, metaTagRet>>

\* the scheduler runs another goroutine: every local is the goroutine's own
\* (result, resp, inHead, f are declared inside the functions,
\* factory.go:179-186 and page.go:119-120); the factory is not touched
Switch ==
    /\ cur # 0
    /\ \E j \in (1..NumResolutions) \ {cur} :
         /\ saved' = [saved EXCEPT ![cur] = Locals, ![j] = Running]
         /\ cur' = j
         /\ pc' = saved[j].pc /\ origURLtext' = saved[j].origURLtext
         /\ clientCalls' = saved[j].clientCalls /\ reqBuilt' = saved[j].reqBuilt
         /\ hooks' = saved[j].hooks /\ netCalls' = saved[j].netCalls
         /\ resp' = saved[j].resp /\ page' = saved[j].page /\ retErr' = saved[j].retErr
         /\ detectAns' = saved[j].detectAns /\ parseAns' = saved[j].parseAns
         /\ stopAns' = saved[j].stopAns /\ downloadCalls' = saved[j].downloadCalls
         /\ downloadRet' = saved[j].downloadRet
         /\ stack' = saved[j].stack /\ parseState' = saved[j].parseState
         /\ inHead' = saved[j].inHead
    /\ UNCHANGED <<fileVars, variant, factory, policy, options, metaTagRet>>

-----------------------------------------------------------------------------
(* Specifications.                                                          *)

Variants == {"NewPageFromURL", "factory", "DefaultFactory"}

DefaultFactoryFields ==
    [clientProvider |-> FALSE, provideClientFunc |-> FALSE, reqPreparer |-> FALSE,
     prepReqFunc |-> FALSE, detectRedirectsPolicy |-> FALSE,
     parseMetaDataInHTMLContentPolicy |-> FALSE, contentDownloader |-> FALSE,
     contentDownloaderErrorPolicy |-> FALSE, fileAttachmentCreator |-> FALSE]

\* factory.go:71-106 and issue.go:149-176: every field is set from the options
\* that implement it and is nil otherwise; the factory struct has a
\* contentDownloader, DefaultFactory has not
initOptions(v) ==
    IF v = "NewPageFromURL" THEN {DefaultFactoryFields}
    ELSE { fac \in [DOMAIN DefaultFactoryFields -> BOOLEAN] :
             v = "DefaultFactory" => ~fac.contentDownloader }

\* no DownloadFile call is in progress, and one resolution runs on its own
NoDownloadFile ==
    /\ fpc = "Idle"
    /\ fileArgs = [url |-> "nil", resp |-> "nil", policy |-> "nil"]
    /\ fileResult = NoAttachment /\ fileRet = NoFileRet
    /\ fs = {} /\ bodyClosed = FALSE /\ destFile = "none"
    /\ createCalls = 0 /\ fileLog = <<>>
    /\ cur = 0 /\ saved = <<>>

\* the call is made: a factory built by NewFactory (or a policy argument), the
\* URL text and the call's options are fixed, nothing has run yet
Init ==
    /\ variant \in Variants
    /\ factory \in initOptions(variant)
    /\ policy \in (IF variant = "NewPageFromURL" THEN {"nil", "set"} ELSE {"nil"})
    /\ options \in (IF variant = "NewPageFromURL" THEN {FALSE} ELSE BOOLEAN)
    /\ origURLtext \in URLTexts
    /\ pc = "Start"
    /\ clientCalls = 0 /\ reqBuilt = 0 /\ hooks = <<>> /\ netCalls = 0
    /\ resp = NoResp
    /\ page = NoPage
    /\ retErr = NoErr
    /\ detectAns = "none" /\ parseAns = "none" /\ stopAns = "none"
    /\ downloadRet = NoOutcome
    /\ downloadCalls = 0
    /\ stack = <<>> /\ inHead = FALSE /\ parseState = "none"
    /\ metaTagRet = NoRet
    /\ NoDownloadFile

Next ==
    \/ NewPageFromURL_Begin
    \/ NewPageFromURL_Do
    \/ NewPageFromHTTPResponse_Dispatch
    \/ NewPageFromHTTPResponse_htmlReturn
    \/ NewPageFromHTTPResponse_Download
    \/ factory_PageFromURL_Begin
    \/ factory_PageFromURL_Do
    \/ factory_pageFromHTTPResponse_Dispatch
    \/ factory_pageFromHTTPResponse_htmlReturn
    \/ factory_pageFromHTTPResponse_Download
    \/ DefaultFactory_PageFromURL_Begin
    \/ DefaultFactory_PageFromURL_Do
    \/ DefaultFactory_pageFromHTTPResponse_Dispatch
    \/ DefaultFactory_pageFromHTTPResponse_htmlReturn
    \/ DefaultFactory_pageFromHTTPResponse_Download
    \/ parsePageMetaData_Parse
    \/ parsePageMetaData_ParseError
    \/ parsePageMetaData_f
    \/ MetaTagCall

Spec == Init /\ [][Next]_vars

\* factories whose options decide the path of a resolution: the two HTML
\* policies, the downloader and its error policy, each given or not
PathFactories ==
    { fac \in initOptions("factory") :
        ~fac.clientProvider /\ ~fac.provideClientFunc /\ ~fac.reqPreparer
        /\ ~fac.prepReqFunc /\ ~fac.fileAttachmentCreator }

\* factory.PageFromURL is called on a factory built by NewFactory
InitLive ==
    /\ Init
    /\ variant = "factory"
    /\ factory \in PathFactories

NextLive ==
    \/ factory_PageFromURL_Begin
    \/ factory_PageFromURL_Do
    \/ factory_pageFromHTTPResponse_Dispatch
    \/ factory_pageFromHTTPResponse_htmlReturn
    \/ factory_pageFromHTTPResponse_Download
    \/ parsePageMetaData_Parse
    \/ parsePageMetaData_ParseError
    \/ parsePageMetaData_f

\* the resolution is one goroutine running straight-line code: as long as the
\* calls it makes return, its next statement is executed
SpecLive == InitLive /\ [][NextLive]_vars /\ WF_vars(NextLive)

\* parsePageMetaData entered from NewPageFromHTTPResponse (page.go:91-93) for
\* a text/html response whose policy asked for redirect detection
InitMeta ==
    /\ variant = "NewPageFromURL"
    /\ factory = DefaultFactoryFields
    /\ policy = "set"
    /\ options = FALSE
    /\ pc = "ExtractingMetadata"
    /\ origURLtext = "http://t"
    /\ clientCalls = 1 /\ reqBuilt = 1 /\ netCalls = 1
    /\ hooks = <<"http.Client{}", "http.NewRequest", "User-Agent">>
    /\ \E b \in MetaDocs \cup RefreshDocs \cup {ReadError} :
          resp = Response(origURLtext, 200, "text/html", b)
    /\ page = [NewPage(origURLtext) EXCEPT !.PageType = HTMLType]
    /\ retErr = NoErr
    /\ detectAns = "true" /\ parseAns = "none" /\ stopAns = "none"
    /\ downloadRet = NoOutcome
    /\ downloadCalls = 0
    /\ stack = <<>> /\ inHead = FALSE /\ parseState = "none"
    /\ metaTagRet = NoRet
    /\ NoDownloadFile

NextMeta ==
    \/ parsePageMetaData_Parse
    \/ parsePageMetaData_ParseError
    \/ parsePageMetaData_f
    \/ NewPageFromHTTPResponse_htmlReturn
    \/ MetaTagCall

SpecMeta == InitMeta /\ [][NextMeta]_vars

\* DownloadFile is called with some arguments on empty storage; no resolution
\* is in progress
FileURLs == {"nil", "http://t/f", "http://u/g"}
InitFile ==
    /\ variant = "NewPageFromURL"
    /\ factory = DefaultFactoryFields
    /\ policy = "set"
    /\ options = FALSE
    /\ origURLtext = "http://t"
    /\ pc = "Start"
    /\ clientCalls = 0 /\ reqBuilt = 0 /\ hooks = <<>> /\ netCalls = 0
    /\ resp = NoResp
    /\ page = NoPage
    /\ retErr = NoErr
    /\ detectAns = "none" /\ parseAns = "none" /\ stopAns = "none"
    /\ downloadRet = NoOutcome
    /\ downloadCalls = 0
    /\ stack = <<>> /\ inHead = FALSE /\ parseState = "none"
    /\ metaTagRet = NoRet
    /\ fpc = "Start"
    /\ fileArgs \in [url : FileURLs, resp : {"nil", "set"}, policy : {"nil", "auto", "noAuto"}]
    /\ fileResult = NoAttachment /\ fileRet = NoFileRet
    /\ fs = {} /\ bodyClosed = FALSE /\ destFile = "none"
    /\ createCalls = 0 /\ fileLog = <<>>
    /\ cur = 0 /\ saved = <<>>

NextFile ==
    \/ DownloadFile_Begin
    \/ DownloadFile_CreateFile
    \/ DownloadFile_Copy
    \/ DownloadFile_Open
    \/ DownloadFile_Sniff
    \/ Delete

SpecFile == InitFile /\ [][NextFile]_vars

\* factories shared by the concurrent resolutions: no options; a downloader
\* with a download-error policy
SharedFactories ==
    { DefaultFactoryFields,
      [DefaultFactoryFields EXCEPT !.contentDownloader = TRUE,
                                   !.contentDownloaderErrorPolicy = TRUE] }

\* NewFactory has returned; NumResolutions goroutines are about to call
\* PageFromURL on the factory, the first is running
InitConc ==
    /\ variant = "factory"
    /\ factory \in SharedFactories
    /\ policy = "nil"
    /\ options = FALSE
    /\ origURLtext = FreshLocals.origURLtext
    /\ pc = "Start"
    /\ clientCalls = 0 /\ reqBuilt = 0 /\ hooks = <<>> /\ netCalls = 0
    /\ resp = NoResp
    /\ page = NoPage
    /\ retErr = NoErr
    /\ detectAns = "none" /\ parseAns = "none" /\ stopAns = "none"
    /\ downloadRet = NoOutcome
    /\ downloadCalls = 0
    /\ stack = <<>> /\ inHead = FALSE /\ parseState = "none"
    /\ metaTagRet = NoRet
    /\ fpc = "Idle"
    /\ fileArgs = [url |-> "nil", resp |-> "nil", policy |-> "nil"]
    /\ fileResult = NoAttachment /\ fileRet = NoFileRet
    /\ fs = {} /\ bodyClosed = FALSE /\ destFile = "none"
    /\ createCalls = 0 /\ fileLog = <<>>
    /\ cur = 1
    /\ saved = [i \in 1..NumResolutions |-> IF i = 1 THEN Running ELSE FreshLocals]

NextConc ==
    \/ factory_PageFromURL_Begin
    \/ factory_PageFromURL_Do
    \/ factory_pageFromHTTPResponse_Dispatch
    \/ factory_pageFromHTTPResponse_htmlReturn
    \/ factory_pageFromHTTPResponse_Download
    \/ parsePageMetaData_Parse
    \/ parsePageMetaData_ParseError
    \/ parsePageMetaData_f
    \/ Switch

SpecConc == InitConc /\ [][NextConc]_vars

-----------------------------------------------------------------------------
(* Properties of the resolution, checked under Spec.                        *)

Returned == pc \in {"Done", "Error"}
FactoryVariants == {"factory", "DefaultFactory"}

\* the blank-target code: issue code RESOURCE_E-0050, error code 50
IsBlankTargetError(v, e) ==
    IF v = "NewPageFromURL"
    THEN e # NoErr /\ e.code = <<"RESOURCE_E-0050">> /\ e.isError
    ELSE e # NoErr /\ e.type = "Error" /\ e.Code = 50

\* C1: for an empty URL text the call returns the blank-target error and no
\* Page, and up to that return no HTTP client was obtained, no request built,
\* no preparer run and no network call made.
C1_BlankTargetBeforeIO ==
    (origURLtext = "" /\ pc # "Start") =>
        /\ pc = "Error"
        /\ clientCalls = 0 /\ reqBuilt = 0 /\ netCalls = 0 /\ hooks = <<>>
        /\ page = NoPage /\ resp = NoResp
        /\ IsBlankTargetError(variant, retErr)

\* the empty URL text was given to factory.PageFromURL and the call returned
C1_Witness ==
    origURLtext = "" /\ variant = "factory" /\ pc = "Error" /\ retErr = targetURLIsBlankError

\* strconv.Atoi of a digit sequence
RECURSIVE DecimalValue(_)
DecimalValue(ds) ==
    IF ds = <<>> THEN 0
    ELSE DecimalValue(SubSeq(ds, 1, Len(ds) - 1)) * 10
         + (CHOOSE d \in 0..9 : Decimal(d) = <<ds[Len(ds)]>>)

\* the status an invalid-status error identifies, -1 if it is none
StatusIdentifiedBy(v, e) ==
    IF e = NoErr THEN -1
    ELSE IF v = "NewPageFromURL"
    THEN IF Len(e.code) > 2 /\ e.code[1] = "RESOURCE_E-0300" /\ e.code[2] = "-HTTP-"
              /\ \A i \in 3..Len(e.code) : IsDigit(e.code[i])
         THEN DecimalValue(SubSeq(e.code, 3, Len(e.code))) ELSE -1
    ELSE IF v = "factory"
    THEN IF e.type = "wrapError" /\ e.Unwrap.type = "InvalidHTTPRespStatusCodeError"
         THEN e.Unwrap.HTTPStatusCode ELSE -1
    ELSE IF e.type = "InvalidHTTPRespStatusCodeError" THEN e.HTTPStatusCode ELSE -1

\* C2: a response whose status is not 200 ends the call with no Page and an
\* invalid-status error that identifies exactly that status.
C2_StatusCarried ==
    (resp # NoResp /\ resp.StatusCode # 200) =>
        /\ pc = "Error"
        /\ page = NoPage
        /\ StatusIdentifiedBy(variant, retErr) = resp.StatusCode

\* a 404 answered NewPageFromURL: the code is RESOURCE_E-0300-HTTP-404
C2_Witness ==
    /\ resp # NoResp /\ resp.StatusCode = 404 /\ variant = "NewPageFromURL"
    /\ retErr # NoErr /\ retErr.code = <<"RESOURCE_E-0300", "-HTTP-", "4", "0", "4">>

NoPolicyOptions(fac) ==
    /\ ~fac.detectRedirectsPolicy /\ ~fac.parseMetaDataInHTMLContentPolicy
    /\ ~fac.contentDownloader /\ ~fac.contentDownloaderErrorPolicy
    /\ ~fac.fileAttachmentCreator

ClassifiesHTML(contentType) ==
    /\ contentType # ""
    /\ NewPageType(contentType)[2] = NoErr
    /\ NewPageType(contentType)[1].MediaType = "text/html"

\* C3: a 200 response whose Content-Type classifies to text/html, resolved by
\* a factory built without policy options, never enters the download path and
\* returns a nil error with a Page marked HTMLParsed.
C3_DefaultPolicyParsesHTML ==
    (/\ variant \in FactoryVariants /\ NoPolicyOptions(factory)
     /\ resp # NoResp /\ resp.StatusCode = 200 /\ ClassifiesHTML(resp.ContentType)) =>
        /\ pc \in {"Classified", "ExtractingMetadata", "Done"}
        /\ downloadCalls = 0
        /\ pc = "Done" => (retErr = NoErr /\ page # NoPage /\ page.HTMLParsed)

\* a factory without options returned a parsed Page for a header with a charset
C3_Witness ==
    /\ variant = "factory" /\ factory = DefaultFactoryFields /\ pc = "Done"
    /\ resp.ContentType = "Text/HTML; charset=UTF-8"
    /\ retErr = NoErr /\ page.HTMLParsed

\* C4: a Page returned by PageFromURL is valid exactly when the
\* error returned with it is nil.
C4_ValidIffNilError ==
    (variant \in FactoryVariants /\ Returned /\ page # NoPage) =>
        (IsValid_flag(page) <=> retErr = NoErr)

\* C5: for a text/html response the extraction runs exactly when
\* the redirect-detection policy or the metadata-parsing policy answers true
\* (a policy that is not configured counts as true); when both answer false
\* the extraction does not run and HTMLParsed stays false.
C5_ExtractionIffPolicyTrue ==
    (/\ pc \in {"ExtractingMetadata", "Downloading", "Done"}
     /\ page # NoPage /\ resp.ContentType # "" /\ IsHTML(page)) =>
        ((pc = "ExtractingMetadata" \/ page.HTMLParsed \/ parseState # "none")
            <=> (detectAns # "false" \/ parseAns # "false"))

\* C6: the two paths exclude each other on every Page: a parsed Page has no
\* attachment and the downloader was never invoked for it; a Page with an
\* attachment was not parsed, is no redirect and has an empty metadata mapping.
C6_PathsExclusive ==
    page # NoPage =>
        /\ page.HTMLParsed =>
              (page.DownloadedAttachment = NoAttachment /\ downloadCalls = 0)
        /\ page.DownloadedAttachment # NoAttachment =>
              /\ ~page.HTMLParsed /\ parseState = "none"
              /\ ~page.IsHTMLRedirect
              /\ page.MetaPropertyTags = NoMap

\* a Page came back with an attachment
C6_Witness ==
    /\ pc = "Done" /\ variant = "factory" /\ page # NoPage
    /\ page.DownloadedAttachment = SomeAttachment /\ downloadCalls = 1

\* C11: when the downloader returned an error, the call returns that error
\* (and a Page that is not valid) exactly when a download-error policy is
\* configured and answered true; otherwise it returns a nil error and a valid
\* Page without attachment.
C11_DownloadErrorFatalOnlyOnStop ==
    (/\ variant \in FactoryVariants
     /\ downloadRet # NoOutcome /\ downloadRet.err # NoErr) =>
        /\ Returned /\ page # NoPage
        /\ IF factory.contentDownloaderErrorPolicy /\ stopAns = "true"
           THEN retErr = downloadRet.err /\ ~IsValid_flag(page)
           ELSE /\ retErr = NoErr /\ pc = "Done"
                /\ IsValid_flag(page)
                /\ page.DownloadedAttachment = NoAttachment

\* the downloader failed, the configured policy said to go on
C11_Witness ==
    /\ variant = "factory" /\ downloadRet # NoOutcome /\ downloadRet.err = DownloadError
    /\ downloadRet.attachment = SomeAttachment
    /\ stopAns = "false" /\ pc = "Done" /\ page.valid

-----------------------------------------------------------------------------
(* Properties of DownloadFile, checked under SpecFile.                      *)

InLog(op) == \E i \in DOMAIN fileLog : fileLog[i] = op
FileReturned == fpc \in {"Returned", "Deleted"}
HasErrorIssue(issues) == \E i \in DOMAIN issues : issues[i].isError

\* C12: when DownloadFile returned true with auto-extension enabled, the
\* attachment is valid, storage holds the file at exactly the recorded
\* DestPath (also when the rename did not succeed), and after Delete no file
\* is at that path.
C12_FileAtRecordedPath ==
    (FileReturned /\ fileRet.ok /\ fileArgs.policy = "auto") =>
        /\ FileAttachment_IsValid(fileRet.attachment)
        /\ fpc = "Returned" => fs = {fileRet.attachment.DestPath}
        /\ fpc = "Deleted" => fileRet.attachment.DestPath \notin fs

\* the path with the extension of its final element removed and '.'+e added,
\* stated on positions: the extension starts at the last '.' after the last '/'
StrippedPlus(p, e) ==
    LET slashes == {i \in DOMAIN p : p[i] = "/"}
        from == IF slashes = {} THEN 1 ELSE (CHOOSE i \in slashes : \A j \in slashes : j <= i) + 1
        dots == {i \in from..Len(p) : p[i] = "."}
        keep == IF dots = {} THEN Len(p)
                ELSE (CHOOSE i \in dots : \A j \in dots : j <= i) - 1
    IN  [i \in 1..(keep + 1 + Len(e)) |->
            IF i <= keep THEN p[i] ELSE IF i = keep + 1 THEN "." ELSE e[i - keep - 1]]

\* positions of the operations in the log are increasing in the given order
LoggedInOrder(log, ops) ==
    \E f \in [DOMAIN ops -> DOMAIN log] :
        /\ \A i \in DOMAIN ops : log[f[i]] = ops[i]
        /\ \A i, j \in DOMAIN ops : i < j => f[i] < f[j]

\* C13: the step that records a detected type with extension e sets DestPath
\* to the written path with its extension stripped and '.'+e appended and
\* FileType to the detected type; the rename comes after the copy, the close
\* of the destination, the re-open and the read, and moves the file there.
C13_RenameToDetectedExtension ==
    [][ (fileResult # NoAttachment /\ fileResult' # NoAttachment
         /\ fileResult'.FileType # fileResult.FileType) =>
            LET e == fileResult'.FileType.Extension
                np == StrippedPlus(fileResult.DestPath, e)
            IN  /\ fileResult'.DestPath = np
                /\ \E m \in MatchOutcomes : ~m.err /\ m.type = fileResult'.FileType
                /\ \/ LoggedInOrder(fileLog', <<"io.Copy", "destFile.Close", "os.Open",
                                               "file.Read", "os.Rename">>)
                      /\ fs' = (fs \ {fileResult.DestPath}) \cup {np}
                   \/ LoggedInOrder(fileLog', <<"io.Copy", "destFile.Close", "os.Open",
                                               "file.Read", "os.Rename failed">>)
                      /\ fs' = fs
                /\ fileRet'.ok /\ fileRet'.attachment = fileResult' ]_vars

\* f.tar.gz was written, a PDF was detected, the file is now f.tar.pdf
C13_Witness ==
    /\ fpc = "Returned" /\ fileRet.ok
    /\ fileRet.attachment.DestPath = <<"f",".","t","a","r",".","p","d","f">>
    /\ fileRet.attachment.FileType.Extension = sPdf
    /\ fs = {<<"f",".","t","a","r",".","p","d","f">>}

\* C14: when the written destination cannot be re-opened for sniffing,
\* DownloadFile still returns true with a valid Attachment at its original
\* path and no error-severity issue.
C14_SniffOpenFailureSwallowed ==
    (FileReturned /\ InLog("os.Open failed")) =>
        /\ fileRet.ok
        /\ FileAttachment_IsValid(fileRet.attachment)
        /\ ~HasErrorIssue(fileRet.issues)
        /\ fileRet.attachment.DestPath \in DestNames

\* C15: when detection is inconclusive (no known type, with or without an
\* error from the detector), the Attachment keeps its DestPath, nothing is
\* renamed, no sniffed type is recorded and the attachment is valid.
C15_InconclusiveSniffKeepsPath ==
    (/\ FileReturned /\ InLog("filetype.Match")
     /\ fileRet.attachment.FileType.Extension \notin {sPdf, sPng}) =>
        /\ fileRet.attachment.DestPath \in DestNames
        /\ fs = IF fpc = "Deleted" THEN {} ELSE {fileRet.attachment.DestPath}
        /\ ~InLog("os.Rename") /\ ~InLog("os.Rename failed")
        /\ fileRet.attachment.FileType = NoFileType
        /\ FileAttachment_IsValid(fileRet.attachment)

\* C16: on every exit reached with a URL and a response (nil policy,
\* destination-creation failure, copy failure, sniff failure, success) the
\* response body has been closed and a created destination has been closed.
C16_ClosedOnEveryExit ==
    (FileReturned /\ fileArgs.url # "nil" /\ fileArgs.resp # "nil") =>
        /\ bodyClosed
        /\ destFile # "open"

\* C18: a failure in steps 1-3 (nil URL, nil response, nil policy,
\* destination creation, copy) returns false with a non-nil Attachment and a
\* non-empty error list; for a nil URL or response CreateFile was not called.
C18_FatalFailureReturnsAttachment ==
    (FileReturned /\ ~fileRet.ok /\ ~InLog("os.Open failed")) =>
        /\ fileRet.attachment # NoAttachment
        /\ fileRet.issues # <<>> /\ HasErrorIssue(fileRet.issues)
        /\ (fileArgs.url = "nil" \/ fileArgs.resp = "nil") => createCalls = 0

-----------------------------------------------------------------------------
(* Reference notions used to state the properties of the extractor: the    *)
(* pre-order sequence of a tree and the <meta> elements that follow the     *)
(* first head element in it.                                                *)

RECURSIVE PreOrder(_)
PreOrder(n) ==
    LET RECURSIVE Kids(_)
        Kids(i) == IF i > Len(n.Kids) THEN <<>> ELSE PreOrder(n.Kids[i]) \o Kids(i + 1)
    IN  <<n>> \o Kids(1)

Eligible(pre, i) ==
    /\ IsElement(pre[i], sMeta)
    /\ \E j \in 1..i : IsElement(pre[j], sHead)

HasContent(n) == \E i \in DOMAIN n.Attr : EqualFold(n.Attr[i].Key, sContent)
ContentOf(n) ==
    n.Attr[CHOOSE i \in DOMAIN n.Attr :
              /\ EqualFold(n.Attr[i].Key, sContent)
              /\ \A j \in DOMAIN n.Attr : EqualFold(n.Attr[j].Key, sContent) => j <= i].Val
KeysOf(n) ==
    { n.Attr[i].Val : i \in { j \in DOMAIN n.Attr :
          EqualFold(n.Attr[j].Key, sProperty) \/ EqualFold(n.Attr[j].Key, sName) } }
IsRefresh(n) ==
    \E i \in DOMAIN n.Attr :
        EqualFold(n.Attr[i].Key, sHttpEquiv) /\ EqualFold(TrimSpace(n.Attr[i].Val), sRefresh)
MaxOf(S) == CHOOSE i \in S : \A j \in S : j <= i

Extracted == pc = "Done" /\ parseState = "ok"

\* C7: the redirect recorded by the extraction is decided by the
\* pattern with any number of digits and any amount of white space around the
\* semicolon: the Page is a redirect exactly when some eligible refresh meta
\* has a content matching that pattern, and the stored text is group 2 of the
\* last such meta.
C7_RefreshMatchesStarPattern ==
    Extracted =>
        LET pre == PreOrder(resp.Body)
            R == { i \in DOMAIN pre :
                     /\ Eligible(pre, i) /\ IsRefresh(pre[i]) /\ HasContent(pre[i])
                     /\ metaRefreshContentRegEx_star(TrimSpace(ContentOf(pre[i]))) # NoMatch }
        IN  IF R = {}
            THEN ~page.IsHTMLRedirect /\ page.MetaRefreshTagContentURLText = <<>>
            ELSE /\ page.IsHTMLRedirect
                 /\ page.MetaRefreshTagContentURLText =
                      metaRefreshContentRegEx_star(TrimSpace(ContentOf(pre[MaxOf(R)])))[3]

\* C8: while the traversal runs, the in-head flag is never reset and becomes
\* true exactly at a head element; a <meta> visited while the flag is false
\* leaves the Page untouched; a <meta> visited once the flag is true is
\* processed wherever it sits: each of its property/name keys is mapped to its
\* content.
C8_InHeadLatched ==
    [][ (pc = "ExtractingMetadata" /\ parseState = "ok" /\ stack # <<>>) =>
          LET n == Head(stack)
          IN  /\ inHead => inHead'
              /\ ~inHead => (inHead' <=> IsElement(n, sHead))
              /\ (IsElement(n, sMeta) /\ ~inHead) => page' = page
              /\ (IsElement(n, sMeta) /\ inHead /\ HasContent(n)) =>
                    \A k \in KeysOf(n) :
                        /\ k \in DOMAIN page'.MetaPropertyTags
                        /\ page'.MetaPropertyTags[k] = ContentOf(n)
      ]_vars

\* a <meta> in the body, outside the head subtree, has been processed
C8_Witness ==
    /\ Extracted
    /\ resp.Body = HeadBodyDoc(eDiv, eDiv, eNameB)
    /\ kT \in DOMAIN page.MetaPropertyTags
    /\ page.MetaPropertyTags[kT] = <<"b">>

Carriers(pre, k) ==
    { i \in DOMAIN pre : Eligible(pre, i) /\ HasContent(pre[i]) /\ k \in KeysOf(pre[i]) }

\* C9: after the extraction the mapping holds, for every key, the content of
\* the last eligible <meta> in pre-order that carries the key together with a
\* content attribute, and holds nothing for any other key; keys are compared
\* verbatim.
C9_LastWriterWins ==
    Extracted =>
        LET pre == PreOrder(resp.Body)
            m == page.MetaPropertyTags
            keys == QueryKeys \cup UNION { KeysOf(pre[i]) : i \in DOMAIN pre } \cup DOMAIN m
        IN  \A k \in keys :
              IF Carriers(pre, k) = {}
              THEN k \notin DOMAIN m
              ELSE k \in DOMAIN m /\ m[k] = ContentOf(pre[MaxOf(Carriers(pre, k))])

\* two metas carried the same key with different contents; the later one won
C9_Witness ==
    /\ Extracted
    /\ LET pre == PreOrder(resp.Body)
       IN  \E k \in QueryKeys : \E i, j \in Carriers(pre, k) :
              /\ i < j /\ j = MaxOf(Carriers(pre, k))
              /\ ContentOf(pre[i]) # ContentOf(pre[j])
              /\ page.MetaPropertyTags[k] = ContentOf(pre[j])

\* C10: on a Page that is HTML and was parsed, MetaTag(k) returns the mapped
\* value with ok = true when the mapping holds k, ok = false when it does not,
\* and never an issue.
C10_MetaTagOnParsedHTML ==
    (metaTagRet # NoRet /\ page # NoPage /\ IsHTML(page) /\ page.HTMLParsed) =>
        LET k == metaTagRet.key
            m == page.MetaPropertyTags
        IN  /\ metaTagRet.issue = NoErr
            /\ IF k \in DOMAIN m
               THEN metaTagRet.ok /\ metaTagRet.value = <<m[k]>>
               ELSE ~metaTagRet.ok

\* a mapped key was asked for and its value came back
C10_Witness ==
    /\ metaTagRet # NoRet /\ page # NoPage /\ IsHTML(page) /\ page.HTMLParsed
    /\ metaTagRet.key = kT /\ metaTagRet.ok /\ metaTagRet.value = <<<<"a">>>>
    /\ metaTagRet.issue = NoErr

\* C17: whenever the extraction was dispatched, the response body has been
\* read once and is closed when the extraction has returned, whether
\* html.Parse succeeded or failed.
C17_BodyClosedAfterExtraction ==
    (pc = "Done" /\ parseState # "none") =>
        /\ resp.reads = 1
        /\ resp.closed

\* what ran on the request before it was sent: the request was built once,
\* then the interface preparer (if configured), then the function preparer
\* (if configured), each once; NewPageFromURL sets the User-Agent header
PreparedInOrder(h) ==
    LET prep == IF variant = "NewPageFromURL" THEN <<"User-Agent">>
                ELSE (IF factory.reqPreparer
                      THEN <<"reqPreparer.OnPrepareHTTPRequest">> ELSE <<>>)
                     \o (IF factory.prepReqFunc THEN <<"prepReqFunc">> ELSE <<>>)
    IN  /\ Len(h) = 2 + Len(prep)
        /\ h[2] = "http.NewRequest"
        /\ SubSeq(h, 3, Len(h)) = prep

\* C19: a resolution sends at most one GET: a step that sends one is the
\* first, and at that moment the request has been built and the preparers
\* have run on it, the interface preparer before the function preparer; no
\* step after a failure sends another.
C19_SingleGetAfterHooks ==
    [][ netCalls' # netCalls =>
            /\ netCalls = 0 /\ netCalls' = 1
            /\ reqBuilt = 1 /\ clientCalls = 1
            /\ pc # "Error" /\ retErr = NoErr
            /\ hooks' = hooks
            /\ PreparedInOrder(hooks) ]_vars

\* a factory with both preparers has sent its GET
C19_Witness ==
    /\ variant = "factory" /\ factory.reqPreparer /\ factory.prepReqFunc
    /\ netCalls = 1
    /\ hooks = <<"http.Client{}", "http.NewRequest",
                 "reqPreparer.OnPrepareHTTPRequest", "prepReqFunc">>
    /\ pc = "Error" /\ resp # NoResp /\ resp.StatusCode = 500

-----------------------------------------------------------------------------
(* Concurrent resolutions, checked under SpecConc.                          *)

\* the extraction as one fold over the nodes in visiting order; st is the
\* pair <<inHead, page>> before the first of the nodes
RECURSIVE WalkAll(_, _)
WalkAll(nodes, st) ==
    IF nodes = <<>> THEN st[2]
    ELSE CHOOSE r \in { WalkAll(Tail(nodes), q) :
                          q \in {<<inHeadAfter(Head(nodes), st[1]),
                                   visitNode(Head(nodes), st[1], st[2])>>} } : TRUE

\* the Page that factory.PageFromURL returns when it runs alone on factory fac
\* and the server, the downloader and the policies answer what they answered
\* the resolution with locals r
AlonePage(fac, r) ==
    IF r.resp = NoResp \/ r.resp.StatusCode # 200 THEN NoPage
    ELSE
    LET ct == r.resp.ContentType
        typ == NewPageType(ct)
        base == NewPage(r.origURLtext)
        typed == [base EXCEPT !.PageType = IF ct # "" THEN typ[1] ELSE NoType]
        o == r.downloadRet
    IN  IF ct # "" /\ typ[2] # NoErr THEN base
        ELSE IF ct # "" /\ IsHTML(typed)
        THEN IF r.resp.Body = ReadError
             THEN [typed EXCEPT !.HTMLParsed = TRUE,
                                !.AllIssues = <<newIssue(r.origURLtext, <<"RESOURCE_E-0400">>,
                                                         "parseError", TRUE)>>]
             ELSE [WalkAll(PreOrder(r.resp.Body), <<FALSE, typed>>) EXCEPT !.HTMLParsed = TRUE]
        ELSE IF ~fac.contentDownloader THEN [typed EXCEPT !.valid = TRUE]
        ELSE IF o.err # NoErr /\ fac.contentDownloaderErrorPolicy /\ r.stopAns = "true"
        THEN typed
        ELSE [typed EXCEPT !.valid = TRUE,
                           !.DownloadedAttachment =
                               IF o.err = NoErr /\ o.ok /\ o.attachment # NoAttachment
                               THEN o.attachment ELSE @]

\* the locals of every resolution, running or parked
AllLocals == {Locals} \cup {saved[i] : i \in {j \in DOMAIN saved : saved[j] # Running}}

AllReturnedAsAlone ==
    \A r \in AllLocals : r.pc \in {"Done", "Error"} => r.page = AlonePage(factory, r)

\* C20: however the resolutions on one shared factory are interleaved, no
\* step writes a field of the factory, and every resolution that has returned
\* holds the Page it returns when run alone against the same answers.
C20_NoCrossContamination ==
    /\ [][factory' = factory]_vars
    /\ []AllReturnedAsAlone

\* two resolutions on a factory with a downloader have returned: one a parsed
\* HTML Page with metadata and a redirect, the other a Page with an attachment
C20_Witness ==
    /\ cur = 2 /\ pc = "Done" /\ saved[1].pc = "Done"
    /\ page.HTMLParsed /\ page.IsHTMLRedirect /\ kT \in DOMAIN page.MetaPropertyTags
    /\ saved[1].page.DownloadedAttachment = SomeAttachment
    /\ ~saved[1].page.HTMLParsed /\ saved[1].page.MetaPropertyTags = NoMap

-----------------------------------------------------------------------------
(* Progress of one resolution, checked under SpecLive.                      *)

\* the position of a state in the order Start, Fetching, Classified,
\* ExtractingMetadata or Downloading, Done or an error return
Rank(state) ==
    CASE state = "Start" -> 0
      [] state = "Fetching" -> 1
      [] state = "Classified" -> 2
      [] state \in {"ExtractingMetadata", "Downloading"} -> 3
      [] state \in {"Done", "Error"} -> 4

\* C21: every step that changes the state of the resolution moves it strictly
\* forward in the order Start, Fetching, Classified, one of ExtractingMetadata
\* and Downloading, Done or error return, so no state is entered twice and at
\* most one of the two middle states is visited; and when every call returns,
\* the resolution reaches Done or an error return.
C21_ForwardAndTerminates ==
    /\ [][pc' # pc => Rank(pc') > Rank(pc)]_vars
    /\ <>(pc \in {"Done", "Error"})

\* a resolution that went through the extraction of a document and returned
C21_Witness ==
    /\ pc = "Done" /\ variant = "factory" /\ parseState = "ok" /\ stack = <<>>
    /\ page.HTMLParsed /\ netCalls = 1

-----------------------------------------------------------------------------
(* Validity of the issue-list Page (page.go:206-209), checked under Spec.   *)

\* C22: a Page returned by NewPageFromURL is valid exactly when none of its
\* issues is an error; in particular a Page whose issues are all warnings is
\* valid.
C22_ValidIffNoErrorIssue ==
    (pc = "Done" /\ variant = "NewPageFromURL" /\ page # NoPage) =>
        (IsValid(page) <=> ~HasErrorIssue(page.AllIssues))

-----------------------------------------------------------------------------
(* Capabilities given with the call (factory.go:147, 177; issue.go:217,     *)
(* 265-273), checked under Spec.                                            *)

\* the downloader reported a finished download
Downloaded(o) == o # NoOutcome /\ o.err = NoErr /\ o.ok /\ o.attachment # NoAttachment

\* C23: when a download capability is among the options of the PageFromURL
\* call and none was given to NewFactory, a resolution that returns a Page for
\* a non-HTML 200 response has invoked the downloader once, and the Page holds
\* the attachment of a successful download.
C23_CallOptionDownloaderUsed ==
    (/\ variant \in FactoryVariants /\ options
     /\ ~factory.contentDownloader /\ ~factory.fileAttachmentCreator
     /\ pc = "Done" /\ page # NoPage /\ ~IsHTML(page)) =>
        /\ downloadCalls = 1
        /\ Downloaded(downloadRet) => page.DownloadedAttachment = downloadRet.attachment

-----------------------------------------------------------------------------
(* A body that cannot be parsed (page.go:112-116; factory.go:190-194;       *)
(* issue.go:257-262), checked under Spec.                                   *)

IsParseIssue(i) == i.code = <<"RESOURCE_E-0400">> /\ i.isError

\* C24: a resolution that dispatched the extraction and whose body failed to
\* parse reports the failure: a factory returns a non-nil error, and
\* NewPageFromURL returns a Page that carries the UnableToParseHTTPBody error
\* issue and is not valid.
C24_ParseFailureReported ==
    (Returned /\ parseState = "error") =>
        IF variant = "NewPageFromURL"
        THEN /\ page # NoPage
             /\ \E k \in DOMAIN page.AllIssues : IsParseIssue(page.AllIssues[k])
             /\ ~IsValid(page)
        ELSE retErr # NoErr

-----------------------------------------------------------------------------
(* The media type of a returned Page (factory.go:183-211; page.go:83-108,   *)
(* 216-238), checked under Spec.                                            *)

\* C25: a Page returned with a nil error (and, from NewPageFromURL, without
\* an error issue) has a media type, so that IsHTML, MetaTags and MetaTag are
\* defined on it; a MetaTag call on such a Page does not panic.
C25_ReturnedPageHasType ==
    (/\ pc = "Done" /\ retErr = NoErr /\ page # NoPage
     /\ ~HasErrorIssue(page.AllIssues)) =>
        /\ page.PageType # NoType
        /\ ~IsHTMLPanics(page)
        /\ metaTagRet # NoRet => metaTagRet.issue # [nil |-> "panic"]

====
